---- MODULE Spec2Model ----
(***************************************************************************)
(* MoltSales: the four-phase sales prompt router (src/src/router.py) and   *)
(* its HTTP surface (src/src/api.py).                                      *)
(*                                                                         *)
(* JSON texts are modelled as tagged values [t |-> tag, v |-> value] so    *)
(* that parsing and validation are real conversions: "str", "num",        *)
(* "list", "obj" are JSON values, "invalid" is a text that is not JSON,    *)
(* "none" is an absent text (response.text is None).  Objects of a fixed   *)
(* schema are records (a missing key is a missing field); dictionaries     *)
(* with free keys (the session context) are sets of <<key, value>> pairs.  *)
(***************************************************************************)
EXTENDS Integers, Sequences, FiniteSets, TLC

VARIABLES
    api_key,           \* the credential in the environment (GEMINI_API_KEY): "None" when unset
    server,            \* lifecycle of the ASGI application: "starting" | "serving" | "failed"
    router,            \* api.router: "None" until startup_event constructs it
    category_summary,  \* SalesPromptRouter.category_summary
    prompts,           \* SalesPromptRouter.prompts
    collection,        \* the "prompts" collection of local_qdrant (on disk): NoCollection or a set of points
    builds,            \* history: number of index builds run by this process
    inflight,          \* requests accepted by the server and not yet handled
    last,              \* history: the last request handled, the replies it used and its response
    probe              \* history: an earlier phase 2 call kept for comparison, and whether
                       \* a call of another phase was handled since

vars == <<api_key, server, router, category_summary, prompts, collection, builds, inflight, last, probe>>

-----------------------------------------------------------------------------
(* Bounds *)

MaxInflight == 2       \* requests that may wait at the same time
MaxCats == 2           \* longest categories list in a model response
MaxMissing == 1        \* longest missing_variables list in a model response

-----------------------------------------------------------------------------
(* JSON values *)

Str(s) == [t |-> "str", v |-> s]
Num(n) == [t |-> "num", v |-> n]
List(q) == [t |-> "list", v |-> q]
Obj(r) == [t |-> "obj", v |-> r]
InvalidJson == [t |-> "invalid"]
NoText == [t |-> "none"]

RECURSIVE SeqsUpTo(_, _)
SeqsUpTo(S, n) ==
    IF n = 0 THEN {<<>>}
    ELSE LET shorter == SeqsUpTo(S, n - 1)
         IN  shorter \cup {Append(q, x) : q \in {p \in shorter : Len(p) = n - 1}, x \in S}

Range(q) == {q[i] : i \in 1..Len(q)}

-----------------------------------------------------------------------------
(* data/category_summary.json and data/mvp_prompts.json: a sample corpus.  *)
(* Four templates share a category so that the limit of phase 2 matters,   *)
(* and one category of the taxonomy has no template.                       *)

CategorySummaryFile ==
    << [level |-> "L1", categories |-> {"Prospecting"}, summary |-> "find", example_use_cases |-> <<"cold email">>],
       [level |-> "L2", categories |-> {"Closing", "Negotiation"}, summary |-> "win", example_use_cases |-> <<"discount">>] >>

Template(id, cat, vars_, md) ==
    [id |-> id, category |-> cat, use_case |-> "u", variables |-> vars_, metadata |-> md, template |-> "t"]

P1 == Template("P1", "Prospecting", <<"prospect_name", "company">>, [S |-> "s1", T |-> "t1"])
P2 == Template("P2", "Prospecting", <<>>, [S |-> "s2"])
P3 == Template("P3", "Prospecting", <<"company">>, [S |-> "s3", T |-> "t3"])
P4 == Template("P4", "Prospecting", <<"prospect_name">>, [T |-> "t4"])
P5 == Template("P5", "Closing", <<"company">>, [S |-> "s5", T |-> "t5"])
\* a template of an earlier version of the corpus, no longer in the file
P0 == Template("P0", "Closing", <<"budget">>, [S |-> "s0", T |-> "t0"])

PromptsFile == <<P1, P2, P3, P4, P5>>
OldPromptsFile == <<P0, P1, P2>>

Queries == {"q1", "q2"}

-----------------------------------------------------------------------------
(* Outcomes of a phase operation: a returned value or a raised exception.  *)
(* gen is the sequence of requests the operation sent to the Generation    *)
(* Client (each named by its response schema, "text" for free text).       *)

Return(value, gen) == [ok |-> TRUE, value |-> value, gen |-> gen]
Raise(err, gen) == [ok |-> FALSE, err |-> err, gen |-> gen]

(* Replies of the Generation Client to one generate_content request: the   *)
(* call raises (network, authentication, quota) or returns a response      *)
(* whose text is any text.                                                 *)
GenFailure == [ok |-> FALSE]
GenText(text) == [ok |-> TRUE, text |-> text]
NoReply == [ok |-> FALSE, unused |-> TRUE]

-----------------------------------------------------------------------------
(* Pydantic models of the structured outputs (router.py).                  *)
(* model_validate_json(text) parses the text as JSON and validates it:     *)
(* the text must be a JSON object, every field is required and must have   *)
(* its declared type (str, List[str]); unknown keys are ignored.  Nothing  *)
(* else is constrained: no length, no membership.                          *)

IsStr(j) == j.t = "str"
IsListOfStr(j) == j.t = "list" /\ \A i \in 1..Len(j.v) : IsStr(j.v[i])
Untag(q) == [i \in 1..Len(q) |-> q[i].v]
TagAll(q) == [i \in 1..Len(q) |-> Str(q[i])]

Invalid == [ok |-> FALSE]
Valid(value) == [ok |-> TRUE, value |-> value]

DispatcherDecision(text) ==
    IF text.t # "obj" THEN Invalid
    ELSE IF ~({"categories", "reasoning"} \subseteq DOMAIN text.v) THEN Invalid
    ELSE IF ~(IsListOfStr(text.v.categories) /\ IsStr(text.v.reasoning)) THEN Invalid
    ELSE Valid([categories |-> Untag(text.v.categories.v),
                reasoning |-> text.v.reasoning.v])

SpecialistDecision(text) ==
    IF text.t # "obj" THEN Invalid
    ELSE IF ~({"selected_prompt_id", "missing_variables", "clarifying_question"} \subseteq DOMAIN text.v)
         THEN Invalid
    ELSE IF ~(IsStr(text.v.selected_prompt_id) /\ IsListOfStr(text.v.missing_variables)
              /\ IsStr(text.v.clarifying_question))
         THEN Invalid
    ELSE Valid([selected_prompt_id |-> text.v.selected_prompt_id.v,
                missing_variables |-> Untag(text.v.missing_variables.v),
                clarifying_question |-> text.v.clarifying_question.v])

-----------------------------------------------------------------------------
(* Texts the hosted model may answer with.  The response schema is only a  *)
(* request to the model: the text is untrusted.                            *)

CategoryNames == {"Prospecting", "Closing", "Pricing"}
VariableNames == {"company", "budget"}
PromptIds == {"P1", "PX"}
Questions == {"", "Which company?"}

DispatcherTexts ==
    {InvalidJson, NoText, List(<<Str("Closing"), Str("Prospecting")>>),
     Obj([categories |-> List(<<Str("Closing"), Str("Prospecting")>>)]),
     Obj([categories |-> Str("Closing"), reasoning |-> Str("r")]),
     Obj([categories |-> List(<<Num(1), Str("Closing")>>), reasoning |-> Str("r")]),
     Obj([categories |-> List(<<Str("Closing"), Str("Prospecting")>>), reasoning |-> Num(0)])}
    \cup {Obj([categories |-> List(TagAll(cs)), reasoning |-> Str("r")]) :
             cs \in SeqsUpTo(CategoryNames, MaxCats)}

SpecialistTexts ==
    {InvalidJson, NoText,
     Obj([selected_prompt_id |-> Str("P1"), missing_variables |-> List(<<>>)]),
     Obj([selected_prompt_id |-> Num(1), missing_variables |-> List(<<>>), clarifying_question |-> Str("")]),
     Obj([selected_prompt_id |-> Str("P1"), missing_variables |-> Str("company"), clarifying_question |-> Str("")])}
    \cup {Obj([selected_prompt_id |-> Str(id), missing_variables |-> List(TagAll(mv)),
               clarifying_question |-> Str(cq)]) :
             id \in PromptIds \cup {"NONE"}, mv \in SeqsUpTo(VariableNames, MaxMissing), cq \in Questions}

FreeTexts == {NoText, Str("Hi Sarah"), Str("")}

DispatcherReplies == {GenFailure} \cup {GenText(x) : x \in DispatcherTexts}
SpecialistReplies == {GenFailure} \cup {GenText(x) : x \in SpecialistTexts}
GeneratorReplies == {GenFailure} \cup {GenText(x) : x \in FreeTexts}

-----------------------------------------------------------------------------
(* The Retrieval Store: the local Qdrant collection "prompts".             *)

Limit == 3

None == [null |-> TRUE]
NoCollection == [exists |-> FALSE, points |-> {}]

Get(d, k, default) == IF k \in DOMAIN d THEN d[k] ELSE default

\* router.py:78, the text that is embedded for one prompt
DocText(prompt) ==
    <<"Category: ", Get(prompt, "category", "None"),
      " - Situation: ", Get(prompt.metadata, "S", ""),
      " - Task: ", Get(prompt.metadata, "T", "")>>

\* QdrantClient.add stores each document with its metadata as one payload
Payload(doc, metadata) == [document |-> doc] @@ metadata

BuildPoints(ps) ==
    {[id |-> idx - 1, payload |-> Payload(DocText(ps[idx]), ps[idx])] : idx \in 1..Len(ps)}

\* The fused relevance of a stored point for a query text: a fixed function
\* of the query and of the stored point (the index is static between builds).
Score(query_text, point) ==
    IF query_text = "q1" THEN 10 - point.id
    ELSE IF "T" \in DOMAIN point.payload.metadata THEN 5 + point.id ELSE point.id

RECURSIVE TopK(_, _, _)
TopK(points, query_text, k) ==
    IF k = 0 \/ points = {} THEN <<>>
    ELSE LET best == CHOOSE pt \in points : \A o \in points :
                        \/ Score(query_text, pt) > Score(query_text, o)
                        \/ Score(query_text, pt) = Score(query_text, o) /\ pt.id <= o.id
         IN  <<best>> \o TopK(points \ {best}, query_text, k - 1)

\* models.Filter(must=[FieldCondition(key="category", match=MatchAny(any=...))])
MatchAny(point, any) ==
    "category" \in DOMAIN point.payload /\ point.payload.category \in Range(any)

\* QdrantClient.query: the best `limit` points that pass the filter, best first
qdrant_query(coll, query_text, any, limit) ==
    IF ~coll.exists THEN [ok |-> FALSE]
    ELSE [ok |-> TRUE,
          value |-> TopK({pt \in coll.points : MatchAny(pt, any)}, query_text, limit)]

-----------------------------------------------------------------------------
(* SalesPromptRouter (router.py)                                           *)

\* genai.Client(api_key=None) takes the key from the environment.  Without a
\* key the installed client library either refuses to construct the client
\* (tolerant = FALSE) or constructs one whose every request fails.
genai_Client(key, tolerant) ==
    IF key = "None" /\ ~tolerant THEN [ok |-> FALSE] ELSE [ok |-> TRUE, api_key |-> key]

\* a client without a key cannot be answered
CanReply(reply) == api_key = "None" => reply = GenFailure

load_data == [category_summary |-> CategorySummaryFile, prompts |-> PromptsFile]

\* init_vector_db with the existence test inverted
init_vector_db_inverted(ps, coll, add_ok) ==
    IF coll.exists
    THEN IF add_ok
         THEN [ok |-> TRUE, collection |-> [exists |-> TRUE, points |-> BuildPoints(ps)], built |-> 1]
         ELSE [ok |-> FALSE, collection |-> coll, built |-> 1]
    ELSE [ok |-> TRUE, collection |-> coll, built |-> 0]

\* The collection is built only if it does not exist in the folder.
\* add_ok: whether QdrantClient.add completes (it embeds and writes to disk).
init_vector_db(ps, coll, add_ok) ==
    IF ~coll.exists
    THEN IF add_ok
         THEN [ok |-> TRUE, collection |-> [exists |-> TRUE, points |-> BuildPoints(ps)], built |-> 1]
         ELSE [ok |-> FALSE, collection |-> coll, built |-> 1]
    ELSE [ok |-> TRUE, collection |-> coll, built |-> 0]

\* phase 1 asking the model a second time when its answer does not validate
phase_1_dispatcher_retry(user_query, reply) ==
    LET gen == <<"DispatcherDecision">>
    IN  IF ~reply.ok THEN Raise("APIError", gen)
        ELSE LET decision == DispatcherDecision(reply.text)
             IN  IF decision.ok THEN Return(decision.value, gen)
                 ELSE Raise("ValidationError", gen \o gen)

phase_1_dispatcher(user_query, reply) ==
    LET gen == <<"DispatcherDecision">>
    IN  IF ~reply.ok THEN Raise("APIError", gen)
        ELSE LET decision == DispatcherDecision(reply.text)
             IN  IF decision.ok THEN Return(decision.value, gen)
                 ELSE Raise("ValidationError", gen)

\* phase 2 with the category filter left out of the query
phase_2_search_unfiltered(user_query, top_categories) ==
    LET results == [ok |-> collection.exists,
                    value |-> TopK(collection.points, user_query, Limit)]
    IN  IF ~results.ok THEN Raise("CollectionNotFound", <<>>)
        ELSE Return([i \in 1..Len(results.value) |-> results.value[i].payload], <<>>)

phase_2_search(user_query, top_categories) ==
    LET results == qdrant_query(collection, user_query, top_categories, Limit)
    IN  IF ~results.ok THEN Raise("CollectionNotFound", <<>>)
        ELSE LET top_3 == [i \in 1..Len(results.value) |-> results.value[i].payload]
             IN  IF Len(top_3) = 0 THEN Return(<<>>, <<>>) ELSE Return(top_3, <<>>)

phase_3_specialist(user_query, top_3_prompts, session_context, reply) ==
    LET gen == <<"SpecialistDecision">>
    IN  IF ~reply.ok THEN Raise("APIError", gen)
        ELSE LET decision == SpecialistDecision(reply.text)
             IN  IF ~decision.ok THEN Raise("ValidationError", gen)
                 ELSE IF decision.value.selected_prompt_id = "NONE"
                      THEN Return(decision.value, gen)
                      ELSE Return(decision.value, gen)

\* next((p for p in seq if p['id'] == id), None); p['id'] raises KeyError
\* on a dictionary without that key
RECURSIVE NextWithId(_, _)
NextWithId(seq, id) ==
    IF Len(seq) = 0 THEN [ok |-> TRUE, value |-> None]
    ELSE IF "id" \notin DOMAIN Head(seq) THEN [ok |-> FALSE, err |-> "KeyError"]
    ELSE IF Head(seq).id = id THEN [ok |-> TRUE, value |-> Head(seq)]
    ELSE NextWithId(Tail(seq), id)

NotFoundMessage == "Error: Could not find prompt in database."

phase_4_generator(prompt_id, session_context, reply) ==
    LET target_prompt == NextWithId(prompts, prompt_id).value
    IN  IF target_prompt = None THEN Return(Str(NotFoundMessage), <<>>)
        ELSE LET gen == <<"text">>
             IN  IF ~reply.ok THEN Raise("APIError", gen)
                 ELSE Return(reply.text, gen)

-----------------------------------------------------------------------------
(* Request models (api.py).  FastAPI parses and validates the body against *)
(* the declared model before the endpoint function is called; a body that  *)
(* fails is answered by the framework with status 422 and the endpoint     *)
(* function, with its try/except, never runs.                              *)

Dict(pairs) == [t |-> "obj", v |-> pairs]
Keys(d) == {e[1] : e \in d}

IsListOfDict(j) == j.t = "list" /\ \A i \in 1..Len(j.v) : j.v[i].t = "obj"
IsDictOfStr(j) == j.t = "obj" /\ \A e \in j.v : IsStr(e[2])
UntagDict(pairs) == {<<e[1], e[2].v>> : e \in pairs}

Phase1Request(body) ==
    IF body.t # "obj" THEN Invalid
    ELSE IF ~({"query"} \subseteq DOMAIN body.v) THEN Invalid
    ELSE IF ~IsStr(body.v.query) THEN Invalid
    ELSE Valid([query |-> body.v.query.v])

Phase2Request(body) ==
    IF body.t # "obj" THEN Invalid
    ELSE IF ~({"query", "categories"} \subseteq DOMAIN body.v) THEN Invalid
    ELSE IF ~(IsStr(body.v.query) /\ IsListOfStr(body.v.categories)) THEN Invalid
    ELSE Valid([query |-> body.v.query.v, categories |-> Untag(body.v.categories.v)])

Phase3Request(body) ==
    IF body.t # "obj" THEN Invalid
    ELSE IF ~({"query", "top3", "context"} \subseteq DOMAIN body.v) THEN Invalid
    ELSE IF ~(IsStr(body.v.query) /\ IsListOfDict(body.v.top3) /\ IsDictOfStr(body.v.context))
         THEN Invalid
    ELSE Valid([query |-> body.v.query.v, top3 |-> Untag(body.v.top3.v),
                context |-> UntagDict(body.v.context.v)])

Phase4Request(body) ==
    IF body.t # "obj" THEN Invalid
    ELSE IF ~({"promptId", "context"} \subseteq DOMAIN body.v) THEN Invalid
    ELSE IF ~(IsStr(body.v.promptId) /\ IsDictOfStr(body.v.context)) THEN Invalid
    ELSE Valid([promptId |-> body.v.promptId.v, context |-> UntagDict(body.v.context.v)])

-----------------------------------------------------------------------------
(* Request bodies a client may send *)

CategoryLists ==
    {<<>>, <<"Prospecting">>, <<"Closing", "Prospecting">>, <<"Negotiation">>,
     <<"Pricing", "Closing">>, <<"Prospecting", "Prospecting">>}

\* a second dictionary with the id of P1, and a dictionary without an id
P1b == Template("P1", "Closing", <<"budget">>, [S |-> "s1b"])
NoIdDict == [category |-> "Closing", variables |-> <<>>]

CandidateLists ==
    {<<>>, <<P1>>, <<P1b, P1>>, <<NoIdDict, P1>>, <<Payload(DocText(P2), P2), P5, P1>>}

Contexts ==
    {{<<"prospect_name", Str("Sarah")>>},
     {<<"prospect_name", Str("Sarah")>>, <<"company", Str("Stripe")>>}}

TagDicts(q) == [i \in 1..Len(q) |-> Obj(q[i])]

Phase1Bodies ==
    {InvalidJson, Obj([q |-> Str("q1")]), Obj([query |-> Num(1)])}
    \cup {Obj([query |-> Str("q1")])}

Phase2Bodies ==
    {InvalidJson, Obj([query |-> Str("q1")]),
     Obj([query |-> Str("q1"), categories |-> Str("Closing")])}
    \cup {Obj([query |-> Str(q), categories |-> List(TagAll(cs))]) : q \in Queries, cs \in CategoryLists}

Phase3Bodies ==
    {InvalidJson, Obj([query |-> Str("q1"), top3 |-> List(<<>>)]),
     Obj([query |-> Str("q1"), top3 |-> List(<<Str("P1")>>), context |-> Dict({})]),
     Obj([query |-> Str("q1"), top3 |-> List(<<Obj(P1)>>), context |-> Dict({<<"company", Num(3)>>})])}
    \cup {Obj([query |-> Str("q1"), top3 |-> List(TagDicts(c)), context |-> Dict(x)]) :
             c \in CandidateLists, x \in Contexts}

Phase4Bodies ==
    {InvalidJson, Obj([promptId |-> Str("P1")]),
     Obj([promptId |-> Str("P1"), context |-> Dict({<<"company", Num(3)>>})])}
    \cup {Obj([promptId |-> Str(id), context |-> Dict(x)]) :
             id \in {"P0", "P1", "PX"}, x \in Contexts}

-----------------------------------------------------------------------------
(* Endpoints (api.py): the HTTP response to a body, given the reply of the *)
(* Generation Client to the request the phase sends, if it sends one.      *)

(* op is the outcome of the phase operation the endpoint called (history). *)

NotCalled == [ok |-> FALSE, err |-> "NotCalled", gen |-> <<>>]

Response(status, body, op) == [status |-> status, body |-> body, op |-> op]
ValidationResponse == Response(422, [detail |-> "RequestValidationError"], NotCalled)
HTTPException(status_code, detail, op) == Response(status_code, [detail |-> detail], op)

\* phase 1 endpoint answering a failure with an ordinary result body
api_phase_1_response_swallow(body, reply) ==
    LET req == Phase1Request(body)
    IN  IF ~req.ok THEN ValidationResponse
        ELSE LET decision == phase_1_dispatcher(req.value.query, reply)
             IN  IF ~decision.ok
                 THEN Response(200, [categories |-> <<>>, reasoning |-> decision.err], decision)
                 ELSE Response(200, [categories |-> decision.value.categories,
                                     reasoning |-> decision.value.reasoning], decision)

api_phase_1_response(body, reply) ==
    LET req == Phase1Request(body)
    IN  IF ~req.ok THEN ValidationResponse
        ELSE IF router = "None" THEN HTTPException(500, "AttributeError", NotCalled)
        ELSE LET decision == phase_1_dispatcher(req.value.query, reply)
             IN  IF ~decision.ok THEN HTTPException(500, decision.err, decision)
                 ELSE Response(200, [categories |-> decision.value.categories,
                                     reasoning |-> decision.value.reasoning], decision)

api_phase_2_response(body) ==
    LET req == Phase2Request(body)
    IN  IF ~req.ok THEN ValidationResponse
        ELSE IF router = "None" THEN HTTPException(500, "AttributeError", NotCalled)
        ELSE LET top_prompts == phase_2_search(req.value.query, req.value.categories)
             IN  IF ~top_prompts.ok THEN HTTPException(500, top_prompts.err, top_prompts)
                 ELSE Response(200, top_prompts.value, top_prompts)

api_phase_3_response(body, reply) ==
    LET req == Phase3Request(body)
    IN  IF ~req.ok THEN ValidationResponse
        ELSE IF router = "None" THEN HTTPException(500, "AttributeError", NotCalled)
        ELSE LET decision == phase_3_specialist(req.value.query, req.value.top3, req.value.context, reply)
             IN  IF ~decision.ok THEN HTTPException(500, decision.err, decision)
                 ELSE LET prompt == IF decision.value.selected_prompt_id # "NONE"
                                    THEN NextWithId(req.value.top3, decision.value.selected_prompt_id)
                                    ELSE [ok |-> TRUE, value |-> None]
                      IN  IF ~prompt.ok THEN HTTPException(500, prompt.err, decision)
                          ELSE Response(200,
                                   [selected_prompt_id |-> decision.value.selected_prompt_id,
                                    missing_variables |-> decision.value.missing_variables,
                                    clarifying_question |-> decision.value.clarifying_question,
                                    prompt |-> prompt.value], decision)

api_phase_4_response(body, reply) ==
    LET req == Phase4Request(body)
    IN  IF ~req.ok THEN ValidationResponse
        ELSE IF router = "None" THEN HTTPException(500, "AttributeError", NotCalled)
        ELSE LET result == phase_4_generator(req.value.promptId, req.value.context, reply)
             IN  IF ~result.ok THEN HTTPException(500, result.err, result)
                 ELSE Response(200, [output |-> result.value], result)

-----------------------------------------------------------------------------
(* The process *)

NoCall == [ep |-> "none", req |-> None, reply |-> NoReply, status |-> 0, body |-> None, op |-> NotCalled]

Call(ep, body, reply, resp) ==
    [ep |-> ep, req |-> body, reply |-> IF resp.op.gen = <<>> THEN NoReply ELSE reply,
     status |-> resp.status, body |-> resp.body, op |-> resp.op]

NoProbe == [call |-> NoCall, other |-> FALSE]

\* The folder local_qdrant persists between runs of the program: at process
\* start the collection is absent, or was built by an earlier run from the
\* present corpus, or from an earlier version of it.
Init ==
    /\ api_key \in {"None", "key"}
    /\ server = "starting"
    /\ router = "None"
    /\ category_summary = <<>>
    /\ prompts = <<>>
    /\ collection \in {NoCollection,
                       [exists |-> TRUE, points |-> BuildPoints(PromptsFile)],
                       [exists |-> TRUE, points |-> BuildPoints(OldPromptsFile)]}
    /\ builds = 0
    /\ inflight = 0
    /\ last = NoCall
    /\ probe = NoProbe

\* A client connects.  Connections made while the application starts wait.
Accept ==
    /\ server # "failed"
    /\ inflight < MaxInflight
    /\ inflight' = inflight + 1
    /\ UNCHANGED <<api_key, server, router, category_summary, prompts, collection, builds, last, probe>>

\* @app.on_event("startup"): router = SalesPromptRouter().  The constructor
\* loads the data files and initializes the vector store; if it raises, the
\* application does not start.
startup_event ==
    /\ server = "starting"
    /\ \E tolerant \in BOOLEAN, add_ok \in BOOLEAN :
          LET client == genai_Client(api_key, tolerant)
              data == load_data
              db == init_vector_db(data.prompts, collection, add_ok)
          IN  IF ~client.ok
              THEN /\ server' = "failed"
                   /\ UNCHANGED <<router, category_summary, prompts, collection, builds>>
              ELSE /\ collection' = db.collection
                   /\ builds' = builds + db.built
                   /\ IF db.ok
                      THEN /\ router' = "SalesPromptRouter"
                           /\ category_summary' = data.category_summary
                           /\ prompts' = data.prompts
                           /\ server' = "serving"
                      ELSE /\ server' = "failed"
                           /\ UNCHANGED <<router, category_summary, prompts>>
    /\ UNCHANGED <<api_key, inflight, last, probe>>

\* The server calls an endpoint function only once startup has completed.
Serve(call) ==
    /\ server = "serving"
    /\ inflight > 0
    /\ inflight' = inflight - 1
    /\ last' = call
    /\ probe' = IF probe.call.ep # "none" /\ call.ep # "phase2" THEN [probe EXCEPT !.other = TRUE] ELSE probe
    /\ UNCHANGED <<api_key, server, router, category_summary, prompts, collection, builds>>

api_phase_1 ==
    \E body \in Phase1Bodies, reply \in {r \in DispatcherReplies : CanReply(r)} :
        Serve(Call("phase1", body, reply, api_phase_1_response(body, reply)))

api_phase_2 ==
    \E body \in Phase2Bodies :
        Serve(Call("phase2", body, NoReply, api_phase_2_response(body)))

api_phase_3 ==
    \E body \in Phase3Bodies, reply \in {r \in SpecialistReplies : CanReply(r)} :
        Serve(Call("phase3", body, reply, api_phase_3_response(body, reply)))

\* phase 4 endpoint that builds the collection again from the loaded corpus
api_phase_4_reindex ==
    \E body \in Phase4Bodies, reply \in {r \in GeneratorReplies : CanReply(r)} :
        /\ server = "serving"
        /\ inflight > 0
        /\ inflight' = inflight - 1
        /\ last' = Call("phase4", body, reply, api_phase_4_response(body, reply))
        /\ probe' = IF probe.call.ep # "none" THEN [probe EXCEPT !.other = TRUE] ELSE probe
        /\ collection' = [exists |-> TRUE, points |-> BuildPoints(prompts)]
        /\ UNCHANGED <<api_key, server, router, category_summary, prompts, builds>>

\* phase 4 endpoint whose lookup takes the template out of the corpus
api_phase_4_consume ==
    \E body \in Phase4Bodies, reply \in {r \in GeneratorReplies : CanReply(r)} :
        LET req == Phase4Request(body)
        IN  /\ server = "serving"
            /\ inflight > 0
            /\ inflight' = inflight - 1
            /\ last' = Call("phase4", body, reply, api_phase_4_response(body, reply))
            /\ probe' = IF probe.call.ep # "none" THEN [probe EXCEPT !.other = TRUE] ELSE probe
            /\ prompts' = IF req.ok THEN SelectSeq(prompts, LAMBDA p : p.id # req.value.promptId)
                          ELSE prompts
            /\ UNCHANGED <<api_key, server, router, category_summary, collection, builds>>

api_phase_4 ==
    \E body \in Phase4Bodies, reply \in {r \in GeneratorReplies : CanReply(r)} :
        Serve(Call("phase4", body, reply, api_phase_4_response(body, reply)))

Next ==
    \/ Accept
    \/ startup_event
    \/ api_phase_1
    \/ api_phase_2
    \/ api_phase_3
    \/ api_phase_4

Spec == Init /\ [][Next]_vars

\* History only: keep the phase 2 call just answered, to compare a later
\* phase 2 call with it.
Remember ==
    /\ probe.call.ep = "none"
    /\ last.ep = "phase2"
    /\ last.op.ok
    /\ probe' = [call |-> last, other |-> FALSE]
    /\ UNCHANGED <<api_key, server, router, category_summary, prompts, collection, builds, inflight, last>>

\* The retrieval view of the process: phase 3 takes its candidates from the
\* request and never reads the store, and is left out here.
NextRetrieval ==
    \/ Accept
    \/ startup_event
    \/ api_phase_1
    \/ api_phase_2
    \/ api_phase_4
    \/ Remember

SpecRetrieval == Init /\ [][NextRetrieval]_vars

-----------------------------------------------------------------------------
(* Properties.  The arguments of the last call are read back from its      *)
(* validated request body.                                                 *)

Phase3Returned == last.ep = "phase3" /\ last.op.ok
Phase3Args == Phase3Request(last.req).value
Decision == last.op.value

CandidateIds(top3) == {top3[i].id : i \in {j \in 1..Len(top3) : "id" \in DOMAIN top3[j]}}

\* the first candidate with the given id
Selected(top3, id) ==
    LET I == {i \in 1..Len(top3) : "id" \in DOMAIN top3[i] /\ top3[i].id = id}
    IN  top3[CHOOSE i \in I : \A j \in I : i <= j]

\* C1: whenever phase 3 returns a decision whose selected_prompt_id is the id
\* of a candidate, the set of its missing_variables is the set of that
\* template's variables that are not keys of the session context.
C1_MissingIsSetDifference ==
    (Phase3Returned /\ Decision.selected_prompt_id \in CandidateIds(Phase3Args.top3)) =>
        Range(Decision.missing_variables)
            = Range(Selected(Phase3Args.top3, Decision.selected_prompt_id).variables)
                \ Keys(Phase3Args.context)

\* C2: in every decision phase 3 returns, clarifying_question is empty if and
\* only if missing_variables is empty and the selection is not "NONE".
C2_QuestionEmptyIff ==
    Phase3Returned =>
        (Decision.clarifying_question = ""
            <=> (Len(Decision.missing_variables) = 0 /\ Decision.selected_prompt_id # "NONE"))

Phase2Returned == last.ep = "phase2" /\ last.op.ok
Phase2Args == Phase2Request(last.req).value

StoredWithCategory(cats) ==
    {pt \in collection.points : "category" \in DOMAIN pt.payload /\ pt.payload.category \in Range(cats)}

\* C3: phase 2 returns at most 3 templates, each of a requested category, and
\* the empty sequence when no stored template has a requested category.
C3_Phase2LimitAndFilter ==
    Phase2Returned =>
        /\ Len(last.op.value) <= 3
        /\ \A i \in 1..Len(last.op.value) : last.op.value[i].category \in Range(Phase2Args.categories)
        /\ StoredWithCategory(Phase2Args.categories) = {} => last.op.value = <<>>

\* more stored templates have a requested category than phase 2 may return
C3_Witness ==
    /\ Phase2Returned
    /\ Cardinality(StoredWithCategory(Phase2Args.categories)) > 3
    /\ Len(last.op.value) = 3

Phase4Called == last.ep = "phase4" /\ last.op # NotCalled
Phase4Args == Phase4Request(last.req).value

\* C4: phase 4 called with a promptId that is the id of no template of the
\* corpus fails with a TemplateNotFound error (status 500, no output body)
\* and sends no request to the Generation Client.
C4_UnknownIdFails ==
    (Phase4Called /\ Phase4Args.promptId \notin CandidateIds(prompts)) =>
        /\ ~last.op.ok
        /\ last.op.err = "TemplateNotFound"
        /\ last.status = 500
        /\ last.op.gen = <<>>

Phase3Called == last.ep = "phase3" /\ last.op # NotCalled

\* C5: phase 3 called with an empty candidate list fails with an
\* InvalidCallerState error and sends no request to the Generation Client.
C5_EmptyCandidatesFail ==
    (Phase3Called /\ Len(Phase3Args.top3) = 0) =>
        /\ ~last.op.ok
        /\ last.op.err = "InvalidCallerState"
        /\ last.op.gen = <<>>

Phase2Called == last.ep = "phase2" /\ last.op # NotCalled

\* C6: the index build runs at most once in the process, and when a phase 2
\* call is served the application has started and the collection exists:
\* it was on disk already, or the build of this process has completed.
C6_BuildOnceBeforePhase2 ==
    /\ builds <= 1
    /\ Phase2Called =>
          /\ server = "serving"
          /\ collection.exists
          /\ builds = 1 => collection.points = BuildPoints(prompts)

\* a phase 2 call answered from the index this process built
C6_Witness == Phase2Returned /\ builds = 1 /\ Len(last.op.value) > 0

BodyValid ==
    CASE last.ep = "phase1" -> Phase1Request(last.req).ok
      [] last.ep = "phase2" -> Phase2Request(last.req).ok
      [] last.ep = "phase3" -> Phase3Request(last.req).ok
      [] last.ep = "phase4" -> Phase4Request(last.req).ok
      [] OTHER -> FALSE

OperationRaised == last.op # NotCalled /\ ~last.op.ok

\* C7 as stated: every request that fails, by an invalid body or by a failure
\* of the phase operation, is answered with status 500 and the error message
\* only, and no 4xx status is ever returned.
C7_EveryFailureIs500 ==
    last.ep # "none" =>
        /\ last.status \notin 400..499
        /\ (~BodyValid \/ OperationRaised) =>
              (last.status = 500 /\ DOMAIN last.body = {"detail"})

\* C7 amended: a request whose body fails validation is answered with status
\* 422 and the phase operation is not called; a request whose phase operation
\* raises is answered with status 500 and the error message; a response that
\* is not a 200 carries the error detail only, never result fields.
C7_FailureResponses ==
    last.ep # "none" =>
        /\ last.status \in {200, 422, 500}
        /\ ~BodyValid => (last.status = 422 /\ last.op = NotCalled)
        /\ OperationRaised => (last.status = 500 /\ last.body = [detail |-> last.op.err])
        /\ last.status # 200 => DOMAIN last.body = {"detail"}

\* a phase operation has raised on a valid request
C7_Witness == BodyValid /\ OperationRaised /\ last.op.err = "ValidationError"

Taxonomy(summary) == UNION {summary[i].categories : i \in 1..Len(summary)}

\* C8: every decision phase 1 returns has exactly two categories, both of
\* the taxonomy of the loaded category index.
C8_TwoKnownCategories ==
    (last.ep = "phase1" /\ last.op.ok) =>
        /\ Len(last.op.value.categories) = 2
        /\ Range(last.op.value.categories) \subseteq Taxonomy(category_summary)

\* C9: in every decision phase 3 returns, selected_prompt_id is "NONE" or
\* the id of one of the candidates of the call.
C9_SelectedIsCandidateOrNone ==
    Phase3Returned =>
        \/ Decision.selected_prompt_id = "NONE"
        \/ Decision.selected_prompt_id \in CandidateIds(Phase3Args.top3)

Schema(ep, text) == IF ep = "phase1" THEN DispatcherDecision(text) ELSE SpecialistDecision(text)

\* C10: an invocation of phase 1, 3 or 4 sends at most one request to the
\* Generation Client; when the answer to a schema-constrained request does
\* not validate, the invocation raises after that one request and the caller
\* gets the error, not a decision.
C10_NoRetry ==
    last.ep \in {"phase1", "phase3", "phase4"} =>
        /\ Len(last.op.gen) <= 1
        /\ (last.ep \in {"phase1", "phase3"} /\ last.reply.ok /\ ~Schema(last.ep, last.reply.text).ok) =>
              /\ ~last.op.ok
              /\ Len(last.op.gen) = 1
              /\ last.status = 500

\* phase 1 got an answer that does not validate
C10_Witness ==
    /\ last.ep = "phase1"
    /\ last.reply.ok
    /\ ~DispatcherDecision(last.reply.text).ok
    /\ last.status = 500


\* C11: once the application serves, no step (no phase call, successful or
\* failing, and no arrival of a request) changes the corpus, the category
\* index, the collection or any other field of the router.
C11_PhasesChangeNothing ==
    [][server = "serving" =>
          UNCHANGED <<api_key, server, router, category_summary, prompts, collection, builds>>]_vars

\* a failed phase 4 call has been answered while another request waits, and
\* the corpus and the category index are as loaded
C11_Witness ==
    /\ last.ep = "phase4"
    /\ OperationRaised
    /\ inflight > 0
    /\ prompts = PromptsFile
    /\ category_summary = CategorySummaryFile


BuildFailed == server = "failed" /\ builds = 1

NeedsGeneration ==
    \/ last.ep \in {"phase1", "phase3"} /\ BodyValid
    \/ last.ep = "phase4" /\ BodyValid /\ Phase4Args.promptId \in CandidateIds(prompts)

\* C12: a process started without the credential (and whose index build
\* does not fail) completes startup with the router constructed, and then
\* every call that needs the Generation Client fails with the upstream error,
\* answered as a failure.
C12_StartsWithoutKey ==
    (api_key = "None" /\ server # "starting" /\ ~BuildFailed) =>
        /\ server = "serving"
        /\ router # "None"
        /\ NeedsGeneration =>
              (~last.op.ok /\ last.op.err = "APIError" /\ last.status = 500)


Ids(templates) == [i \in 1..Len(templates) |-> templates[i].id]

SameArgsAsProbe ==
    /\ probe.call.ep = "phase2"
    /\ Phase2Returned
    /\ Phase2Args = Phase2Request(probe.call.req).value

C14_PromptNullIffNone ==
    (last.ep = "phase3" /\ last.status = 200) =>
        /\ last.body.prompt = None <=> last.body.selected_prompt_id = "NONE"
        /\ last.body.selected_prompt_id # "NONE" =>
              /\ last.body.selected_prompt_id \in CandidateIds(Phase3Args.top3)
              /\ last.body.prompt = Selected(Phase3Args.top3, last.body.selected_prompt_id)

\* the stored record carries every field of some template of the loaded corpus
InCorpus(record) ==
    \E i \in 1..Len(prompts) :
        \A k \in DOMAIN prompts[i] : k \in DOMAIN record /\ record[k] = prompts[i][k]

\* C15: every template phase 2 returns is a template of the corpus this
\* process loaded, and phase 4's lookup of its id finds a template, whether
\* the collection was built at this startup or was already on disk.
C15_Phase2ResultsInCorpus ==
    Phase2Returned =>
        \A i \in 1..Len(last.op.value) :
            /\ InCorpus(last.op.value[i])
            /\ NextWithId(prompts, last.op.value[i].id).value # None

====
